---- MODULE Spec2Model ----
(***************************************************************************)
(* Model of main/tasks.py of playlistor: the two Celery tasks              *)
(* generate_spotify_playlist (Apple Music playlist -> Spotify playlist)    *)
(* and generate_applemusic_playlist (Spotify playlist -> Apple Music       *)
(* playlist), with the result cache, the Track table, the Playlist table,  *)
(* the playlist counter and Celery's retry of a task.                      *)
(*                                                                         *)
(* One action is one statement (or one loop iteration) of a task; the      *)
(* answers of the services a task talks to (catalog search, playlist       *)
(* creation, item append) are drawn from small sets.                       *)
(***************************************************************************)
EXTENDS Integers, Sequences, FiniteSets, TLC

(* ------------------------------ bounds --------------------------------- *)
\* conversions (task invocations by the caller) in one behaviour
MaxRuns == 2
\* how many times an hour passes on the clock
MaxTicks == 1

(* -------------------------- program constants -------------------------- *)
\* "You can add a maximum of 100 tracks per request." / N = 100
N == 100
\* cache.set(url, playlist_url, timeout=3600)
CacheTimeout == 3600
\* Celery's Task.max_retries default, used by self.retry(exc=e, countdown=30)
MaxRetries == 3
\* response.status_code >= 500
ServerError == 500

(* ------------------------------ inputs --------------------------------- *)
\* ids of the source tracks of the small playlists; the catalog repeats
\* with this period over the ids of the long ones
TrackIds == 1..3
\* the small playlists, as the ids of their tracks: none, one track of each
\* kind, two tracks in either order
SmallIdLists == {<<>>, <<1>>, <<2>>, <<3>>, <<1, 2>>, <<2, 1>>}
\* lengths of the long playlists: around one and two full batches
LongLens == {N, N + 1, 2 * N, 2 * N + 1}

\* the j-th artist credited on a track
ArtistName(j) == CASE j = 1 -> "x" [] j = 2 -> "y" [] OTHER -> "z"
\* track ids 1, 2, 3, 4, ... carry 1, 3, 0, 2, ... artists
NumArtists(id) == CASE id % 4 = 1 -> 1 [] id % 4 = 2 -> 3 [] id % 4 = 3 -> 0 [] OTHER -> 2
\* a SourceTrack as the parsers produce it: id, name, artists
SourceTrack(id) ==
    [id |-> id, name |-> <<"song", id>>,
     artists |-> [j \in 1..NumArtists(id) |-> ArtistName(j)]]

\* the track lists of the small playlists
SmallTrackLists == {[k \in 1..Len(s) |-> SourceTrack(s[k])] : s \in SmallIdLists}
\* the track lists of the long playlists: tracks 1..len
LongTrackLists == {[k \in 1..len |-> SourceTrack(k)] : len \in LongLens}

\* the URLs the caller submits: tokens of the URL string, "?" starting the query
AppleURLs == {<<"apple", "p1">>, <<"apple", "p1", "?", "x=1">>}
SpotifyURLs == {<<"spotify", "p1">>}
URLs == AppleURLs \cup SpotifyURLs

\* answers of a destination service to a playlist call: 200, an HTTP error
\* status, or 0 for an error that is no HTTP response (connection lost)
OK == 200
ErrorAnswers == {0, 404, 500}
DestAnswers == {OK} \cup ErrorAnswers

\* the URLs given to two workers at a time: two Apple Music playlists and a
\* Spotify playlist
PairURLs == {<<"apple", "p1">>, <<"apple", "p2">>, <<"spotify", "p1">>}
\* the track list published at each of them
PairTrackLists == {<<SourceTrack(2), SourceTrack(1)>>}

\* the sets of catalog keys the destination catalogs do not hold
Catalogs == {{}, {1}, TrackIds}
LongCatalogs == {{}, {1}}

(* ------------------------------ helpers -------------------------------- *)
RECURSIVE Join(_, _)
\* sep.join(s): the elements of s with sep between them
Join(s, sep) ==
    IF Len(s) = 0 THEN <<>>
    ELSE IF Len(s) = 1 THEN <<s[1]>>
    ELSE <<s[1], sep>> \o Join(Tail(s), sep)

Min(a, b) == IF a <= b THEN a ELSE b

\* s[:k]
Take(s, k) == SubSeq(s, 1, Min(k, Len(s)))
\* s[k:]
Drop(s, k) == SubSeq(s, Min(k, Len(s)) + 1, Len(s))

RECURSIVE IndexOf(_, _, _)
\* the first position >= k of s holding x, or Len(s) + 1
IndexOf(s, x, k) ==
    IF k > Len(s) THEN Len(s) + 1
    ELSE IF s[k] = x THEN k ELSE IndexOf(s, x, k + 1)

\* utils.strip_qs: the URL without its query string
strip_qs(url) == SubSeq(url, 1, IndexOf(url, "?", 1) - 1)

RECURSIVE grouper(_, _)
\* utils.grouper(n, iterable): the iterable cut into chunks of at most n
grouper(n, s) ==
    IF Len(s) = 0 THEN <<>>
    ELSE <<Take(s, n)>> \o grouper(n, Drop(s, n))

\* counters.Counters.incr_playlist_counter
incr_playlist_counter(c) == c + 1

(* ------------------------------- state --------------------------------- *)
VARIABLES
    DEBUG,      \* settings.DEBUG
    catalog,    \* the catalog keys the destination catalogs do not hold
    sources,    \* the track lists the parsers may return
    now,        \* the clock, in seconds
    cache,      \* django.core.cache: key -> <<>> or <<[value, expires]>>
    counter,    \* the playlist counter of Counters
    store,      \* the rows of the Track table
    playlists,  \* the rows of the Playlist table, in insertion order
    created,    \* the Spotify playlists created: the source URL of each
    runs,       \* conversions started so far
    returned,   \* per canonical URL, what the last conversion returned
    task        \* per worker, the task it executes

vars == <<DEBUG, catalog, sources, now, cache, counter, store, playlists,
          created, runs, returned, task>>

Workers == {1, 2}

SP == "generate_spotify_playlist"
AM == "generate_applemusic_playlist"

None == <<>>

\* a worker's frame before a task is delivered to it
NoTask(pc) ==
    [pc |-> pc, fn |-> "", raw |-> <<>>, source |-> <<>>, url |-> <<>>,
     retries |-> 0, playlist_title |-> "", n |-> 0, i |-> 0, tracks |-> <<>>,
     track_ids |-> <<>>, tracks_to_save |-> <<>>, missed_tracks |-> <<>>,
     progress |-> <<>>, queries |-> <<>>, chunks |-> <<>>,
     playlist_url |-> None, calls |-> <<>>, err |-> OK, saved |-> <<>>,
     wrote_cache |-> 0, incremented |-> 0, logged |-> 0,
     outcome |-> "", result |-> <<>>, cached |-> FALSE,
     first_failure |-> <<>>, counter0 |-> 0, cache0 |-> <<>>, until |-> 0]

(* ---------------------------- result cache ----------------------------- *)
\* `key in cache`: the key is set and has not expired
cache_has(c, key, t) == c[key] # <<>> /\ t < c[key][1].expires
\* cache.get(key): the value, or None
cache_get(c, key, t) == IF cache_has(c, key, t) THEN c[key][1].value ELSE None
\* cache.set(key, value, timeout)
cache_set(c, key, value, timeout, t) ==
    [c EXCEPT ![key] = <<[value |-> value, expires |-> t + timeout]>>]

\* `if settings.DEBUG:` in place of `if not settings.DEBUG:`
reads_cache_in_debug(fn, debug) == fn = SP /\ debug

\* `if not settings.DEBUG:` guards the cache lookup of generate_spotify_playlist;
\* generate_applemusic_playlist has no lookup
reads_cache(fn, debug) == fn = SP /\ ~debug

(* ----------------------------- Track table ----------------------------- *)
\* Track(name=..., artists=",".join(track.artists), apple_music_id=..., spotify_id=...)
Track(name, artists, apple_music_id, spotify_id) ==
    [name |-> name, artists |-> Join(artists, ","),
     apple_music_id |-> apple_music_id, spotify_id |-> spotify_id]

\* models.Track: apple_music_id and spotify_id are each unique
Unique(rows) ==
    \A r1, r2 \in rows :
        r1 # r2 => /\ r1.apple_music_id # r2.apple_music_id
                   /\ r1.spotify_id # r2.spotify_id

\* match_field naming the id of the service the playlist was read from
match_field_source(fn) == IF fn = SP THEN "apple_music_id" ELSE "spotify_id"

\* match_field of the task's save_or_update_tracks
match_field(fn) == IF fn = SP THEN "spotify_id" ELSE "apple_music_id"

\* the last object of objs with the given value of the match field
LastWith(objs, field, v) ==
    objs[CHOOSE k \in 1..Len(objs) :
            /\ objs[k][field] = v
            /\ \A j \in (k + 1)..Len(objs) : objs[j][field] # v]

\* Track.objects.bulk_update_or_create(objs, [all four fields], match_field):
\* the rows whose match field equals an object's take that object's fields,
\* the other objects are inserted; all or nothing, IntegrityError when the
\* table's uniqueness would break
bulk_update_or_create(rows, objs, field) ==
    LET keys == {objs[k][field] : k \in 1..Len(objs)}
        kept == {r \in rows : r[field] \notin keys}
        new  == kept \cup {LastWith(objs, field, v) : v \in keys}
    IN  IF Unique(new) THEN [raised |-> FALSE, rows |-> new]
        ELSE [raised |-> TRUE, rows |-> rows]

\* save_or_update_tracks as it would be without its except clause
save_or_update_tracks_uncaught(fn, rows, objs) ==
    bulk_update_or_create(rows, objs, match_field(fn))

\* save_or_update_tracks(tracks): IntegrityError is caught and dropped
save_or_update_tracks(fn, rows, objs) ==
    [raised |-> FALSE, rows |-> bulk_update_or_create(rows, objs, match_field(fn)).rows]

(* --------------------------- catalog search --------------------------- *)
\* the catalog entry a source track id falls on
CatalogKey(id) == ((id - 1) % Cardinality(TrackIds)) + 1
\* the id the Spotify catalog gives an Apple Music track, when it holds it
SpotifyIdOf(id) == (id + 1) \div 2
\* the id the Apple Music catalog gives a Spotify track, when it holds it
AppleIdOf(id) == id
\* what a search for the track may come to: a first result with its id, an
\* empty result list, or an exception of the client
SearchAnswers(fn, track) ==
    IF CatalogKey(track.id) \in catalog
    THEN {[kind |-> "empty", id |-> 0], [kind |-> "error", id |-> 0]}
    ELSE {[kind |-> "hit", id |-> IF fn = SP THEN SpotifyIdOf(track.id) ELSE AppleIdOf(track.id)]}

\* f"{track.name} {' '.join(track.artists if len(track.artists) <= 2 else track.artists[:2])}"
SpQuery(track) ==
    <<track.name, " ">> \o
    Join(IF Len(track.artists) <= 2 THEN track.artists ELSE Take(track.artists, 2), " ")
\* f"{track.name} {track.artists[0]}"
AmQuery(track) == <<track.name, " ", track.artists[1]>>

\* sp.search(query, limit=1) / am.search(query=query, limit=1)
search(t, query) == [t EXCEPT !.queries = Append(@, [query |-> query, limit |-> 1])]

\* f"spotify:track:{track_id}"
SpotifyUri(track_id) == <<"spotify:track:", track_id>>

\* the Track built with the two ids in each other's place
SpMatchedSwapped(t, track, track_id) ==
    [t EXCEPT !.track_ids = Append(@, SpotifyUri(track_id)),
              !.tracks_to_save = Append(@, Track(track.name, track.artists, track_id, track.id))]

\* the try block after a first result with id track_id, generate_spotify_playlist
SpMatched(t, track, track_id) ==
    [t EXCEPT !.track_ids = Append(@, SpotifyUri(track_id)),
              !.tracks_to_save = Append(@, Track(track.name, track.artists, track.id, track_id))]

\* the try block after a first result song, generate_applemusic_playlist
AmMatched(t, track, song_id) ==
    [t EXCEPT !.track_ids = Append(@, song_id),
              !.tracks_to_save = Append(@, Track(track.name, track.artists, song_id, track.id))]

\* the except clause without its append
MissedDropped(t, track) == t

\* except: missed_tracks.append(track); continue
Missed(t, track) == [t EXCEPT !.missed_tracks = Append(@, track)]

\* set_progress(i, n): the index of the track, not the count of tracks done
set_progress_index(t, done, total) == [t EXCEPT !.progress = Append(@, <<done - 1, total>>)]

\* finally: progress_recorder.set_progress(i + 1, n)
set_progress(t, done, total) == [t EXCEPT !.progress = Append(@, <<done, total>>)]

\* one iteration of the for loop of generate_spotify_playlist
SpLoopBody(t, ans) ==
    LET track == t.tracks[t.i + 1]
        asked == search(t, SpQuery(track))
        tried == IF ans.kind = "hit" THEN SpMatched(asked, track, ans.id)
                 ELSE Missed(asked, track)
    IN  set_progress(tried, t.i + 1, t.n)

\* the loop body with the query built before the try: artists[0] of a track
\* without artists ends the task
AmLoopBodyQueryOutsideTry(t, ans) ==
    LET track == t.tracks[t.i + 1]
        tried == IF Len(track.artists) = 0 THEN [t EXCEPT !.outcome = "failure"]
                 ELSE IF ans.kind = "hit" THEN AmMatched(search(t, AmQuery(track)), track, ans.id)
                 ELSE [search(t, AmQuery(track)) EXCEPT !.missed_tracks = Append(@, track)]
    IN  [tried EXCEPT !.progress = Append(@, <<t.i + 1, t.n>>)]

\* one iteration of the for loop of generate_applemusic_playlist; artists[0]
\* of a track without artists raises before the search is issued
AmLoopBody(t, ans) ==
    LET track == t.tracks[t.i + 1]
        tried == IF Len(track.artists) = 0 THEN Missed(t, track)
                 ELSE IF ans.kind = "hit" THEN AmMatched(search(t, AmQuery(track)), track, ans.id)
                 ELSE Missed(search(t, AmQuery(track)), track)
    IN  set_progress(tried, t.i + 1, t.n)

(* --------------------------- batch submission -------------------------- *)
\* a call to the destination service as the service sees it
Call(op, items, answer) == [op |-> op, items |-> items, answer |-> answer]

\* the whole list in one playlist_add_items call, whatever its length
SpChunksUncut(track_uris) == <<track_uris>>

\* the arguments of the playlist_add_items calls: grouper(100, track_uris)
\* when there are more than 100, else the whole list in one call
SpChunks(track_uris) ==
    IF Len(track_uris) > N THEN grouper(N, track_uris) ELSE <<track_uris>>

\* track_ids of am.user_playlist_create: track_ids[:N] when there are more
\* than N, else all of them
AmInitial(track_ids) == IF Len(track_ids) > N THEN Take(track_ids, N) ELSE track_ids
\* the chunks taken without `track_ids = track_ids[N:]` before them
AmChunksFromStart(track_ids) ==
    IF Len(track_ids) > N THEN grouper(N, track_ids) ELSE <<>>

\* the arguments of the user_playlist_add_tracks calls: grouper(N, track_ids[N:])
AmChunks(track_ids) ==
    IF Len(track_ids) > N THEN grouper(N, Drop(track_ids, N)) ELSE <<>>

\* response.status_code >= 400
is_client_or_server_error(status) == status >= 400

\* response.status_code >= 500
is_server_error(status) == status >= ServerError
\* except requests.exceptions.HTTPError: the error carries a response
is_http_error(answer) == answer # OK /\ answer # 0

\* self.retry(exc=e, countdown=30) raises Retry while the request has
\* retries left, and exc itself once max_retries is used up
retry_raises_retry(retries) == retries < MaxRetries

\* the task ends by an exception that is not Retry
Failed(t, answer) == [t EXCEPT !.pc = "done", !.outcome = "failure", !.err = answer]

(* ------------------------------ actions -------------------------------- *)
\* the frame of worker w becomes t
Becomes(w, t) == task' = [task EXCEPT ![w] = t]

\* the caller's view sends an Apple Music URL to generate_spotify_playlist
\* and a Spotify URL to generate_applemusic_playlist
TaskFor(raw) == IF raw[1] = "apple" THEN SP ELSE AM

\* what the parser's extract_data() returns for a playlist with these tracks
PlaylistData(raw, tracks) ==
    [playlist_title |-> IF Len(tracks) = 0 THEN "" ELSE "mix",
     playlist_creator |-> "dj",
     playlist_artwork_url |-> <<"art", raw[2]>>,
     tracks |-> tracks]

\* the caller invokes a task with a URL; the playlist published there is
\* one of the sources
Start(w) ==
    /\ task[w].pc = "idle"
    /\ runs < MaxRuns
    /\ \E raw \in DOMAIN returned, tracks \in sources :
         Becomes(w, [NoTask("begin") EXCEPT
                        !.fn = TaskFor(raw), !.raw = raw,
                        !.source = PlaylistData(raw, tracks),
                        !.counter0 = counter, !.cache0 = cache])
    /\ runs' = runs + 1
    /\ UNCHANGED <<DEBUG, catalog, sources, now, cache, counter, store,
                   playlists, created, returned>>

\* generate_spotify_playlist: url = strip_qs(url); if not settings.DEBUG:
SpBegin(w) ==
    LET t == task[w] IN
    /\ t.pc = "begin" /\ t.fn = SP
    /\ Becomes(w, [t EXCEPT !.url = strip_qs(t.raw),
                            !.pc = IF reads_cache(t.fn, DEBUG) THEN "cache_check"
                                   ELSE "parse"])
    /\ UNCHANGED <<DEBUG, catalog, sources, now, cache, counter, store,
                   playlists, created, runs, returned>>

\* generate_applemusic_playlist: url = strip_qs(url)
AmBegin(w) ==
    LET t == task[w] IN
    /\ t.pc = "begin" /\ t.fn = AM
    /\ Becomes(w, [t EXCEPT !.url = strip_qs(t.raw), !.pc = "parse"])
    /\ UNCHANGED <<DEBUG, catalog, sources, now, cache, counter, store,
                   playlists, created, runs, returned>>

\* if url in cache:
CheckCache(w) ==
    LET t == task[w] IN
    /\ t.pc = "cache_check"
    /\ Becomes(w, IF cache_has(cache, t.url, now)
                  THEN [t EXCEPT !.pc = "cache_get", !.until = cache[t.url][1].expires]
                  ELSE [t EXCEPT !.pc = "parse"])
    /\ UNCHANGED <<DEBUG, catalog, sources, now, cache, counter, store,
                   playlists, created, runs, returned>>

\* the cached answer counted as a created playlist
CacheGetCounting(w) ==
    LET t == task[w] IN
    /\ t.pc = "cache_get"
    /\ counter' = incr_playlist_counter(counter)
    /\ Becomes(w, [t EXCEPT !.pc = "done", !.outcome = "result", !.cached = TRUE,
                            !.result = <<[playlist_url |-> cache_get(cache, t.url, now),
                                          destination |-> "spotify",
                                          source |-> "apple-music"]>>])
    /\ UNCHANGED <<DEBUG, catalog, sources, now, cache, store,
                   playlists, created, runs, returned>>

\* return {"playlist_url": cache.get(url), "destination": ..., "source": ...}
CacheGet(w) ==
    LET t == task[w] IN
    /\ t.pc = "cache_get"
    /\ Becomes(w, [t EXCEPT !.pc = "done", !.outcome = "result", !.cached = TRUE,
                            !.result = <<[playlist_url |-> cache_get(cache, t.url, now),
                                          destination |-> "spotify",
                                          source |-> "apple-music"]>>])
    /\ UNCHANGED <<DEBUG, catalog, sources, now, cache, counter, store,
                   playlists, created, runs, returned>>

\* generate_spotify_playlist: data = AppleMusicParser(url).extract_data(),
\* n = len(tracks), the three empty lists
SpParse(w) ==
    LET t == task[w]
        data == t.source
    IN
    /\ t.pc = "parse" /\ t.fn = SP
    /\ Becomes(w, [t EXCEPT
            !.tracks = data.tracks,
            !.playlist_title = data.playlist_title,
            !.n = Len(data.tracks), !.i = 0,
            !.track_ids = <<>>, !.tracks_to_save = <<>>, !.missed_tracks = <<>>,
            !.pc = IF Len(data.tracks) = 0 THEN "create" ELSE "search"])
    /\ UNCHANGED <<DEBUG, catalog, sources, now, cache, counter, store,
                   playlists, created, runs, returned>>

\* generate_applemusic_playlist: data = SpotifyParser(url).extract_data(),
\* playlist_title = data["playlist_title"] or "Untitled", the three empty
\* lists, n = len(tracks)
AmParse(w) ==
    LET t == task[w]
        data == t.source
    IN
    /\ t.pc = "parse" /\ t.fn = AM
    /\ Becomes(w, [t EXCEPT
            !.tracks = data.tracks,
            !.playlist_title = IF data.playlist_title = "" THEN "Untitled"
                               ELSE data.playlist_title,
            !.n = Len(data.tracks), !.i = 0,
            !.track_ids = <<>>, !.tracks_to_save = <<>>, !.missed_tracks = <<>>,
            !.pc = IF Len(data.tracks) = 0 THEN "create" ELSE "search"])
    /\ UNCHANGED <<DEBUG, catalog, sources, now, cache, counter, store,
                   playlists, created, runs, returned>>

\* generate_spotify_playlist: for i, track in enumerate(tracks): one iteration
SpSearch(w) ==
    LET t == task[w] IN
    /\ t.pc = "search" /\ t.fn = SP
    /\ \E ans \in SearchAnswers(t.fn, t.tracks[t.i + 1]) :
         Becomes(w, [SpLoopBody(t, ans) EXCEPT
                        !.i = t.i + 1,
                        !.pc = IF t.i + 1 = t.n THEN "create" ELSE "search"])
    /\ UNCHANGED <<DEBUG, catalog, sources, now, cache, counter, store,
                   playlists, created, runs, returned>>

\* generate_applemusic_playlist: for i, track in enumerate(tracks): one iteration
AmSearch(w) ==
    LET t == task[w] IN
    /\ t.pc = "search" /\ t.fn = AM
    /\ \E ans \in SearchAnswers(t.fn, t.tracks[t.i + 1]) :
         Becomes(w, [AmLoopBody(t, ans) EXCEPT
                        !.i = t.i + 1,
                        !.pc = IF t.i + 1 = t.n THEN "create" ELSE "search"])
    /\ UNCHANGED <<DEBUG, catalog, sources, now, cache, counter, store,
                   playlists, created, runs, returned>>

\* playlist = sp.user_playlist_create(uid, playlist_title, description=...)
SpCreate(w) ==
    LET t == task[w] IN
    /\ t.pc = "create" /\ t.fn = SP
    /\ \E answer \in DestAnswers :
         LET called == [t EXCEPT !.calls = Append(@, Call("create", <<>>, answer))]
         IN  IF answer = OK
             THEN /\ created' = Append(created, t.url)
                  /\ Becomes(w, [called EXCEPT
                        !.playlist_url = <<"open.spotify", Len(created) + 1>>,
                        !.chunks = SpChunks(t.track_ids),
                        !.pc = "sp_add"])
             ELSE /\ Becomes(w, Failed(called, answer))
                  /\ UNCHANGED created
    /\ UNCHANGED <<DEBUG, catalog, sources, now, cache, counter, store,
                   playlists, runs, returned>>

\* sp.playlist_add_items(playlist_id, chunk): the next call of lines 96-100
SpAddItems(w) ==
    LET t == task[w] IN
    /\ t.pc = "sp_add"
    /\ \E answer \in DestAnswers :
         LET called == [t EXCEPT !.calls = Append(@, Call("append", Head(t.chunks), answer))]
         IN  IF answer = OK
             THEN Becomes(w, [called EXCEPT
                        !.chunks = Tail(t.chunks),
                        !.pc = IF Len(t.chunks) = 1 THEN "sp_store" ELSE "sp_add"])
             ELSE Becomes(w, Failed(called, answer))
    /\ UNCHANGED <<DEBUG, catalog, sources, now, cache, counter, store,
                   playlists, created, runs, returned>>

\* Playlist.objects.create(name=..., artwork_url=..., spotify_url=..., ...)
SpStorePlaylist(w) ==
    LET t == task[w] IN
    /\ t.pc = "sp_store"
    /\ playlists' = Append(playlists,
            [name |-> t.playlist_title, artwork_url |-> t.source.playlist_artwork_url,
             spotify_url |-> t.playlist_url, applemusic_url |-> t.url,
             creator |-> t.source.playlist_creator])
    /\ Becomes(w, [t EXCEPT !.pc = "sp_save", !.logged = @ + 1])
    /\ UNCHANGED <<DEBUG, catalog, sources, now, cache, counter, store,
                   created, runs, returned>>

\* if len(tracks_to_save) > 0: save_or_update_tracks(tracks_to_save), at
\* program point from, going on at program point to
SaveStep(w, from, to) ==
    LET t == task[w]
        r == save_or_update_tracks(t.fn, store, t.tracks_to_save)
        rejected == bulk_update_or_create(store, t.tracks_to_save, match_field(t.fn)).raised
    IN
    /\ t.pc = from
    /\ IF Len(t.tracks_to_save) > 0
       THEN /\ store' = r.rows
            /\ Becomes(w, IF r.raised THEN Failed(t, 0)
                          ELSE [t EXCEPT !.pc = to,
                                         !.saved = Append(@,
                                            [rejected |-> rejected,
                                             size |-> Len(t.tracks_to_save),
                                             replaced |-> Cardinality(store \ r.rows),
                                             grew |-> Cardinality(r.rows) - Cardinality(store)])])
       ELSE /\ Becomes(w, [t EXCEPT !.pc = to])
            /\ UNCHANGED store
    /\ UNCHANGED <<DEBUG, catalog, sources, now, cache, counter,
                   playlists, created, runs, returned>>

\* the counter set to one more than it was when the conversion started
IncrStepStale(w, from, to) ==
    LET t == task[w] IN
    /\ t.pc = from
    /\ counter' = incr_playlist_counter(t.counter0)
    /\ Becomes(w, [t EXCEPT !.pc = to, !.incremented = @ + 1])
    /\ UNCHANGED <<DEBUG, catalog, sources, now, cache, store,
                   playlists, created, runs, returned>>

\* counters.incr_playlist_counter(), at program point from
IncrStep(w, from, to) ==
    LET t == task[w] IN
    /\ t.pc = from
    /\ counter' = incr_playlist_counter(counter)
    /\ Becomes(w, [t EXCEPT !.pc = to, !.incremented = @ + 1])
    /\ UNCHANGED <<DEBUG, catalog, sources, now, cache, store,
                   playlists, created, runs, returned>>

\* generate_spotify_playlist: if len(tracks_to_save) > 0: save_or_update_tracks(...)
SpSaveTracks(w) == SaveStep(w, "sp_save", "sp_cache")

\* the cache written under the URL as the caller gave it
SpCacheSetRawKey(w) ==
    LET t == task[w] IN
    /\ t.pc = "sp_cache"
    /\ cache' = cache_set(cache, t.raw, t.playlist_url, CacheTimeout, now)
    /\ Becomes(w, [t EXCEPT !.pc = "sp_incr", !.wrote_cache = @ + 1,
                            !.until = now + CacheTimeout])
    /\ UNCHANGED <<DEBUG, catalog, sources, now, counter, store,
                   playlists, created, runs, returned>>

\* cache.set(url, playlist_url, timeout=3600)
SpCacheSet(w) ==
    LET t == task[w] IN
    /\ t.pc = "sp_cache"
    /\ cache' = cache_set(cache, t.url, t.playlist_url, CacheTimeout, now)
    /\ Becomes(w, [t EXCEPT !.pc = "sp_incr", !.wrote_cache = @ + 1,
                            !.until = now + CacheTimeout])
    /\ UNCHANGED <<DEBUG, catalog, sources, now, counter, store,
                   playlists, created, runs, returned>>

\* generate_spotify_playlist: counters.incr_playlist_counter()
SpIncrCounter(w) == IncrStep(w, "sp_incr", "return")

\* an exception leaving the try block of generate_applemusic_playlist: an
\* HTTPError enters the except clause, anything else ends the task
AmRaised(t, answer) ==
    IF is_http_error(answer) THEN [t EXCEPT !.pc = "am_except", !.err = answer]
    ELSE Failed(t, answer)

\* the try block of generate_applemusic_playlist, one call at a time:
\* am.user_playlist_create(name=..., description=..., track_ids=...) first,
\* track_ids = track_ids[N:] after it when there were more than N, then one
\* am.user_playlist_add_tracks(playlist_id, chunk) per chunk of grouper(N, track_ids)
AmSubmit(w) ==
    LET t == task[w]
        first == t.pc = "create"
        op == IF first THEN "create" ELSE "append"
        items == IF first THEN AmInitial(t.track_ids) ELSE Head(t.chunks)
        rest == IF first THEN AmChunks(t.track_ids) ELSE Tail(t.chunks)
    IN
    /\ t.pc \in {"create", "am_add"} /\ t.fn = AM
    /\ \E answer \in DestAnswers :
         LET called == [t EXCEPT !.calls = Append(@, Call(op, items, answer))]
         IN  IF answer = OK
             THEN Becomes(w, [called EXCEPT
                        !.track_ids = IF first /\ Len(@) > N THEN Drop(@, N) ELSE @,
                        !.chunks = rest,
                        !.pc = IF Len(rest) = 0 THEN "am_incr" ELSE "am_add"])
             ELSE Becomes(w, AmRaised(called, answer))
    /\ UNCHANGED <<DEBUG, catalog, sources, now, cache, counter, store,
                   playlists, created, runs, returned>>

\* except requests.exceptions.HTTPError as e: a status below 500 is raised again
AmExcept(w) ==
    LET t == task[w] IN
    /\ t.pc = "am_except"
    /\ Becomes(w, IF is_server_error(t.err) THEN [t EXCEPT !.pc = "am_except_save"]
                  ELSE Failed(t, t.err))
    /\ UNCHANGED <<DEBUG, catalog, sources, now, cache, counter, store,
                   playlists, created, runs, returned>>

\* the except clause going to self.retry without saving the tracks
AmExceptNoSave(w) ==
    LET t == task[w] IN
    /\ t.pc = "am_except_save"
    /\ Becomes(w, [t EXCEPT !.pc = "am_retry"])
    /\ UNCHANGED <<DEBUG, catalog, sources, now, cache, counter, store,
                   playlists, created, runs, returned>>

\* in the except clause: if len(tracks_to_save) > 0: save_or_update_tracks(...)
AmExceptSave(w) == SaveStep(w, "am_except_save", "am_retry")

\* the counter incremented before self.retry
AmRetryCounted(w) ==
    LET t == task[w] IN
    /\ t.pc = "am_retry"
    /\ counter' = incr_playlist_counter(counter)
    /\ Becomes(w, IF retry_raises_retry(t.retries)
                  THEN [t EXCEPT !.pc = "retry_wait", !.outcome = "retry"]
                  ELSE Failed(t, t.err))
    /\ UNCHANGED <<DEBUG, catalog, sources, now, cache, store,
                   playlists, created, runs, returned>>

\* raise self.retry(exc=e, countdown=30)
AmRetry(w) ==
    LET t == task[w] IN
    /\ t.pc = "am_retry"
    /\ Becomes(w, IF retry_raises_retry(t.retries)
                  THEN [t EXCEPT !.pc = "retry_wait", !.outcome = "retry"]
                  ELSE Failed(t, t.err))
    /\ UNCHANGED <<DEBUG, catalog, sources, now, cache, counter, store,
                   playlists, created, runs, returned>>

\* generate_applemusic_playlist: counters.incr_playlist_counter()
AmIncrCounter(w) == IncrStep(w, "am_incr", "am_save")

\* generate_applemusic_playlist: if len(tracks_to_save) > 0: save_or_update_tracks(...)
AmSaveTracks(w) == SaveStep(w, "am_save", "return")

\* the dict generate_spotify_playlist returns after a full conversion
SpResult(t) ==
    [playlist_url |-> t.playlist_url,
     number_of_tracks |-> t.n,
     missed_tracks |-> t.missed_tracks,
     source |-> "apple-music",
     destination |-> "spotify"]

\* generate_spotify_playlist: return {...}
SpReturn(w) ==
    LET t == task[w] IN
    /\ t.pc = "return" /\ t.fn = SP
    /\ Becomes(w, [t EXCEPT !.pc = "done", !.outcome = "result",
                            !.result = <<SpResult(t)>>])
    /\ UNCHANGED <<DEBUG, catalog, sources, now, cache, counter, store,
                   playlists, created, runs, returned>>

\* the result with the matched tracks counted as number_of_tracks
AmResultMatched(t) ==
    [playlist_url |-> None,
     number_of_tracks |-> Len(t.tracks_to_save),
     missed_tracks |-> t.missed_tracks,
     source |-> "spotify",
     destination |-> "apple-music"]

\* the dict generate_applemusic_playlist returns
AmResult(t) ==
    [playlist_url |-> None,
     number_of_tracks |-> t.n,
     missed_tracks |-> t.missed_tracks,
     source |-> "spotify",
     destination |-> "apple-music"]

\* generate_applemusic_playlist: return {...}
AmReturn(w) ==
    LET t == task[w] IN
    /\ t.pc = "return" /\ t.fn = AM
    /\ Becomes(w, [t EXCEPT !.pc = "done", !.outcome = "result",
                            !.result = <<AmResult(t)>>])
    /\ UNCHANGED <<DEBUG, catalog, sources, now, cache, counter, store,
                   playlists, created, runs, returned>>

\* what the attempt that ends in Retry leaves for the record
FailureOf(t) ==
    [op |-> t.calls[Len(t.calls)].op,
     nth |-> Len(SelectSeq(t.calls, LAMBDA c : c.op = t.calls[Len(t.calls)].op)),
     status |-> t.err]

\* the task delivered again with request.retries as it was
ReexecuteSameRetries(w) ==
    LET t == task[w] IN
    /\ t.pc = "retry_wait"
    /\ Becomes(w, [NoTask("begin") EXCEPT
                        !.fn = t.fn, !.raw = t.raw, !.source = t.source,
                        !.counter0 = t.counter0, !.cache0 = t.cache0,
                        !.retries = t.retries,
                        !.first_failure = IF t.first_failure = <<>> THEN <<FailureOf(t)>>
                                          ELSE t.first_failure])
    /\ UNCHANGED <<DEBUG, catalog, sources, now, cache, counter, store,
                   playlists, created, runs, returned>>

\* Celery delivers the task again, with the same arguments and
\* request.retries one higher
Reexecute(w) ==
    LET t == task[w] IN
    /\ t.pc = "retry_wait"
    /\ Becomes(w, [NoTask("begin") EXCEPT
                        !.fn = t.fn, !.raw = t.raw, !.source = t.source,
                        !.counter0 = t.counter0, !.cache0 = t.cache0,
                        !.retries = t.retries + 1,
                        !.first_failure = IF t.first_failure = <<>> THEN <<FailureOf(t)>>
                                          ELSE t.first_failure])
    /\ UNCHANGED <<DEBUG, catalog, sources, now, cache, counter, store,
                   playlists, created, runs, returned>>

\* the caller takes the task's result or failure; the worker is free again
Ack(w) ==
    LET t == task[w]
        canonical == strip_qs(t.raw)
    IN
    /\ t.pc = "done"
    /\ returned' = IF t.outcome = "result"
                   THEN [returned EXCEPT ![canonical] =
                            <<[playlist_url |-> t.result[1].playlist_url, raw |-> t.raw,
                               at |-> now, until |-> t.until]>>]
                   ELSE returned
    /\ Becomes(w, NoTask("idle"))
    /\ UNCHANGED <<DEBUG, catalog, sources, now, cache, counter, store,
                   playlists, created, runs>>

\* an hour passes
Tick ==
    /\ now < MaxTicks * CacheTimeout
    /\ now' = now + CacheTimeout
    /\ UNCHANGED <<DEBUG, catalog, sources, cache, counter, store,
                   playlists, created, runs, returned, task>>

(* --------------------------- specifications ---------------------------- *)
\* a fresh deployment: nothing cached, stored or counted; one worker
Init ==
    /\ DEBUG \in BOOLEAN
    /\ catalog \in Catalogs
    /\ sources = SmallTrackLists
    /\ now = 0
    /\ cache = [u \in URLs |-> <<>>]
    /\ counter = 0
    /\ store = {}
    /\ playlists = <<>>
    /\ created = <<>>
    /\ runs = 0
    /\ returned = [u \in URLs |-> <<>>]
    /\ task = [w \in Workers |-> IF w = 1 THEN NoTask("idle") ELSE NoTask("off")]

\* the URL of the first playlist created on Spotify
FirstUrl == <<"open.spotify", 1>>

\* a deployment that has converted the (empty) Apple Music playlist p1 once,
\* at time 0, and is now given long playlists
InitLong ==
    /\ DEBUG \in BOOLEAN
    /\ catalog \in LongCatalogs
    /\ sources = LongTrackLists
    /\ now = 0
    /\ cache = [u \in URLs |-> IF u = <<"apple", "p1">>
                               THEN <<[value |-> FirstUrl, expires |-> CacheTimeout]>>
                               ELSE <<>>]
    /\ counter = 1
    /\ store = {}
    /\ playlists = <<[name |-> "", artwork_url |-> <<"art", "p1">>,
                      spotify_url |-> FirstUrl, applemusic_url |-> <<"apple", "p1">>,
                      creator |-> "dj"]>>
    /\ created = << <<"apple", "p1">> >>
    /\ runs = MaxRuns - 1
    /\ returned = [u \in URLs |-> IF u = <<"apple", "p1">>
                                  THEN <<[playlist_url |-> FirstUrl, raw |-> <<"apple", "p1">>,
                                          at |-> 0, until |-> CacheTimeout]>>
                                  ELSE <<>>]
    /\ task = [w \in Workers |-> IF w = 1 THEN NoTask("idle") ELSE NoTask("off")]

Next ==
    \/ \E w \in Workers :
        \/ Start(w)
        \/ SpBegin(w)
        \/ AmBegin(w)
        \/ CheckCache(w)
        \/ CacheGet(w)
        \/ SpParse(w)
        \/ AmParse(w)
        \/ SpSearch(w)
        \/ AmSearch(w)
        \/ SpCreate(w)
        \/ SpAddItems(w)
        \/ SpStorePlaylist(w)
        \/ SpSaveTracks(w)
        \/ SpCacheSet(w)
        \/ SpIncrCounter(w)
        \/ AmSubmit(w)
        \/ AmExcept(w)
        \/ AmExceptSave(w)
        \/ AmRetry(w)
        \/ AmIncrCounter(w)
        \/ AmSaveTracks(w)
        \/ SpReturn(w)
        \/ AmReturn(w)
        \/ Reexecute(w)
        \/ Ack(w)
    \/ Tick

\* short playlists, several conversions
Spec == Init /\ [][Next]_vars

\* a deployment that has converted the (empty) Apple Music playlist p1 once,
\* at time 0, and is now given short playlists
InitLive ==
    /\ DEBUG \in BOOLEAN
    /\ catalog \in Catalogs
    /\ sources = SmallTrackLists
    /\ now = 0
    /\ cache = [u \in URLs |-> IF u = <<"apple", "p1">>
                               THEN <<[value |-> FirstUrl, expires |-> CacheTimeout]>>
                               ELSE <<>>]
    /\ counter = 1
    /\ store = {}
    /\ playlists = <<[name |-> "", artwork_url |-> <<"art", "p1">>,
                      spotify_url |-> FirstUrl, applemusic_url |-> <<"apple", "p1">>,
                      creator |-> "dj"]>>
    /\ created = << <<"apple", "p1">> >>
    /\ runs = MaxRuns - 1
    /\ returned = [u \in URLs |-> IF u = <<"apple", "p1">>
                                  THEN <<[playlist_url |-> FirstUrl, raw |-> <<"apple", "p1">>,
                                          at |-> 0, until |-> CacheTimeout]>>
                                  ELSE <<>>]
    /\ task = [w \in Workers |-> IF w = 1 THEN NoTask("idle") ELSE NoTask("off")]

\* a deployment with two workers that has converted the (empty) Apple Music
\* playlist p1 once, at time 0; two more conversions are asked for
InitPair ==
    /\ DEBUG \in BOOLEAN
    /\ catalog \in LongCatalogs
    /\ sources = PairTrackLists
    /\ now = 0
    /\ cache = [u \in PairURLs |-> IF u = <<"apple", "p1">>
                                   THEN <<[value |-> FirstUrl, expires |-> CacheTimeout]>>
                                   ELSE <<>>]
    /\ counter = 1
    /\ store = {}
    /\ playlists = <<[name |-> "", artwork_url |-> <<"art", "p1">>,
                      spotify_url |-> FirstUrl, applemusic_url |-> <<"apple", "p1">>,
                      creator |-> "dj"]>>
    /\ created = << <<"apple", "p1">> >>
    /\ runs = MaxRuns - 2
    /\ returned = [u \in PairURLs |-> IF u = <<"apple", "p1">>
                                      THEN <<[playlist_url |-> FirstUrl, raw |-> <<"apple", "p1">>,
                                              at |-> 0, until |-> CacheTimeout]>>
                                      ELSE <<>>]
    /\ task = [w \in Workers |-> NoTask("idle")]

\* two workers, each executing one task at a time, their steps interleaved
SpecPair == InitPair /\ [][Next]_vars

\* the steps of the task a worker executes, the redelivery of a task that
\* raised Retry among them
Run(w) ==
    \/ SpBegin(w) \/ AmBegin(w) \/ CheckCache(w) \/ CacheGet(w)
    \/ SpParse(w) \/ AmParse(w) \/ SpSearch(w) \/ AmSearch(w)
    \/ SpCreate(w) \/ SpAddItems(w) \/ SpStorePlaylist(w) \/ SpSaveTracks(w)
    \/ SpCacheSet(w) \/ SpIncrCounter(w) \/ SpReturn(w)
    \/ AmSubmit(w) \/ AmExcept(w) \/ AmExceptSave(w) \/ AmRetry(w)
    \/ AmIncrCounter(w) \/ AmSaveTracks(w) \/ AmReturn(w) \/ Reexecute(w)

\* one conversion of a short playlist by a worker that keeps executing the
\* task it was given; the caller and the clock are under no obligation
SpecLive == InitLive /\ [][Next]_vars /\ \A w \in Workers : WF_vars(Run(w))

\* long playlists, one conversion
SpecLong == InitLong /\ [][Next]_vars

(* ------------------------------ properties ----------------------------- *)
\* the task of the frame has passed the cache lookup and parsed its playlist
PastParse(t) ==
    /\ t.pc \notin {"idle", "off", "begin", "cache_check", "cache_get", "parse"}
    /\ ~t.cached

\* the source-service id of a row of tracks_to_save
SourceId(fn, row) == IF fn = SP THEN row.apple_music_id ELSE row.spotify_id
\* the destination-service id of a row of tracks_to_save
DestinationId(fn, row) == IF fn = SP THEN row.spotify_id ELSE row.apple_music_id

\* how many elements of s satisfy Test
Count(s, Test(_)) == Len(SelectSeq(s, Test))

\* the search for the track cannot succeed: the catalog lacks it, or (Apple
\* Music search) the track has no first artist to ask for
IsMiss(fn, track) ==
    CatalogKey(track.id) \in catalog \/ (fn = AM /\ Len(track.artists) = 0)

\* C1: once the search loop has finished, matched and missed lists together
\* hold exactly n entries, and every source track is in exactly one of them
\* (while the loop runs, the same holds of the tracks visited so far).
C1_Partition ==
    \A w \in Workers :
        LET t == task[w] IN
        PastParse(t) =>
            /\ Len(t.tracks_to_save) + Len(t.missed_tracks) = t.i
            /\ t.n = Len(t.tracks)
            /\ t.pc # "search" => t.i = t.n
            /\ t.pc = "create" =>
                  Len(t.track_ids) + Len(t.missed_tracks) = Len(t.tracks)
            /\ \A k \in 1..t.i :
                  LET id == t.tracks[k].id
                      visited == Count(Take(t.tracks, t.i), LAMBDA x : x.id = id)
                      matched == Count(t.tracks_to_save, LAMBDA r : SourceId(t.fn, r) = id)
                      missed  == Count(t.missed_tracks, LAMBDA x : x.id = id)
                  IN  /\ visited = matched + missed
                      /\ matched = 0 \/ missed = 0

\* a finished loop over two tracks, one matched and one missed, in each direction
C1_Witness ==
    \E w \in Workers :
        /\ task[w].pc = "create" /\ task[w].n = 2
        /\ Len(task[w].track_ids) = 1 /\ Len(task[w].missed_tracks) = 1
        /\ task[w].fn = AM

\* C9: progress is reported once per track, the k-th report being (k, n),
\* whether the track matched or missed, and all n reports precede the first
\* playlist call and the result.
C9_Progress ==
    \A w \in Workers :
        LET t == task[w] IN
        PastParse(t) =>
            /\ t.progress = [k \in 1..t.i |-> <<k, Len(t.source.tracks)>>]
            /\ t.calls # <<>> => Len(t.progress) = Len(t.source.tracks)
            /\ t.result # <<>> => Len(t.progress) = Len(t.source.tracks)

\* both reports of a two-track playlist made, one track missed, no call yet
C9_Witness ==
    \E w \in Workers :
        /\ task[w].pc = "create" /\ task[w].calls = <<>>
        /\ task[w].progress = <<<<1, 2>>, <<2, 2>>>>
        /\ Len(task[w].missed_tracks) = 1

\* C8: a search that raises or finds nothing makes the track a miss and the
\* loop goes on; when every track misses, the playlist is still created, with
\* no items, and the task returns a result whose missed_tracks is the whole
\* track list.
C8_MissesNeverAbort ==
    \A w \in Workers :
        LET t == task[w] IN
        PastParse(t) =>
            /\ t.missed_tracks =
                  SelectSeq(Take(t.tracks, t.i), LAMBDA x : IsMiss(t.fn, x))
            /\ t.pc \in {"search", "create"} => t.outcome = ""
            /\ t.outcome = "failure" => t.calls # <<>>
            /\ (t.calls # <<>> /\ t.tracks_to_save = <<>>) =>
                  /\ t.calls[1].op = "create" /\ t.calls[1].items = <<>>
                  /\ t.missed_tracks = t.tracks
            /\ (t.outcome = "result" /\ t.tracks_to_save = <<>>) =>
                  t.result[1].missed_tracks = t.source.tracks

\* a conversion of two tracks that both missed has returned its result
C8_Witness ==
    \E w \in Workers :
        /\ task[w].pc = "done" /\ task[w].outcome = "result" /\ ~task[w].cached
        /\ task[w].n = 2 /\ Len(task[w].result[1].missed_tracks) = 2
        /\ task[w].calls[1].items = <<>>

\* the answer is an error that is not a 5xx response
NonServerError(answer) == answer # OK /\ ~(is_http_error(answer) /\ answer >= ServerError)

\* C6: after a playlist call answered by a non-5xx error the task ends with
\* that error: no Retry, no further call, no result, no counter increment and
\* no cache write.
C6_FatalSubmitError ==
    \A w \in Workers :
        LET t == task[w] IN
        (t.calls # <<>> /\ NonServerError(t.calls[Len(t.calls)].answer)) =>
            /\ t.pc \in {"am_except", "done"}
            /\ t.pc = "done" => (t.outcome = "failure" /\ t.err = t.calls[Len(t.calls)].answer)
            /\ t.outcome \in {"", "failure"}
            /\ t.result = <<>>
            /\ \A k \in 1..(Len(t.calls) - 1) : t.calls[k].answer = OK
            /\ t.incremented = 0 /\ counter = t.counter0
            /\ t.wrote_cache = 0 /\ cache = t.cache0

\* generate_applemusic_playlist has failed on a 404 to its creation call
C6_Witness ==
    \E w \in Workers :
        /\ task[w].pc = "done" /\ task[w].outcome = "failure" /\ task[w].fn = AM
        /\ task[w].calls # <<>> /\ task[w].calls[Len(task[w].calls)].answer = 404

Max(a, b) == IF a >= b THEN a ELSE b
\* ceil(a / b)
Ceil(a, b) == (a + b - 1) \div b

\* the task has returned the result of a full conversion
Converted(t) == t.pc = "done" /\ t.outcome = "result" /\ ~t.cached

\* the playlist calls of the frame with the given op
CallsOf(t, op) == SelectSeq(t.calls, LAMBDA c : c.op = op)

\* C2 as stated: one creation call with min(L, B) items, ceil(max(0, L-B)/B)
\* append calls, no call with more than B items, in both directions.
C2_Claim ==
    \A w \in Workers :
        LET t == task[w]
            L == Len(t.tracks_to_save)
        IN  Converted(t) =>
                /\ Len(CallsOf(t, "create")) = 1
                /\ t.calls[1].op = "create"
                /\ Len(t.calls[1].items) = Min(L, N)
                /\ Len(CallsOf(t, "append")) = Ceil(Max(0, L - N), N)
                /\ \A k \in 1..Len(t.calls) : Len(t.calls[k].items) <= N

\* C2 amended: that holds of generate_applemusic_playlist; in
\* generate_spotify_playlist the creation call carries no items and the L
\* items go in max(1, ceil(L/B)) append calls; no call carries more than B.
C2_Batches ==
    \A w \in Workers :
        LET t == task[w]
            L == Len(t.tracks_to_save)
        IN  Converted(t) =>
                /\ Len(CallsOf(t, "create")) = 1
                /\ t.calls[1].op = "create"
                /\ \A k \in 1..Len(t.calls) : Len(t.calls[k].items) <= N
                /\ t.fn = AM =>
                      /\ Len(t.calls[1].items) = Min(L, N)
                      /\ Len(CallsOf(t, "append")) = Ceil(Max(0, L - N), N)
                /\ t.fn = SP =>
                      /\ Len(t.calls[1].items) = 0
                      /\ Len(CallsOf(t, "append")) = Max(1, Ceil(L, N))

\* a conversion of 2 * N + 1 matched tracks to Spotify has gone through:
\* one creation call and three append calls, the last with one item
C2_Witness ==
    \E w \in Workers :
        /\ Converted(task[w]) /\ task[w].fn = SP
        /\ Len(task[w].tracks_to_save) = 2 * N + 1
        /\ Len(task[w].calls) = 4
        /\ Len(task[w].calls[4].items) = 1

\* the second conversion of a canonical URL falls within the hour of the first
WithinTTL(prev) ==
    IF prev.until # 0 THEN now < prev.until ELSE now < prev.at + CacheTimeout

\* C3 as stated: in production mode a second conversion of the same canonical
\* URL within the TTL returns the first one's playlist URL and searches
\* nothing, whatever the direction; in DEBUG mode everything is recomputed.
C3_Claim ==
    \A w \in Workers :
        LET t == task[w]
            prev == returned[strip_qs(t.raw)]
        IN  (t.pc = "done" /\ t.outcome = "result") =>
                /\ (~DEBUG /\ prev # <<>> /\ WithinTTL(prev[1])) =>
                      /\ t.result[1].playlist_url = prev[1].playlist_url
                      /\ t.queries = <<>>
                /\ DEBUG => (~t.cached /\ Len(t.progress) = Len(t.source.tracks))

\* C3 amended: that holds of conversions to Spotify whose cache read falls
\* before the entry expires; conversions to Apple Music never read the
\* cache and recompute in full, in either mode.
C3_CacheReplay ==
    \A w \in Workers :
        LET t == task[w]
            prev == returned[strip_qs(t.raw)]
        IN  (t.pc = "done" /\ t.outcome = "result") =>
                /\ (t.fn = SP /\ ~DEBUG /\ prev # <<>> /\ now < prev[1].until) =>
                      /\ t.cached
                      /\ t.result[1].playlist_url = prev[1].playlist_url
                      /\ t.queries = <<>> /\ t.progress = <<>> /\ t.calls = <<>>
                /\ (DEBUG \/ t.fn = AM) =>
                      /\ ~t.cached
                      /\ Len(t.progress) = Len(t.source.tracks)
                      /\ t.calls # <<>>

\* the URL with a query string is answered from the entry that the
\* conversion of the bare URL wrote
C3_Witness ==
    \E w \in Workers :
        LET t == task[w]
            prev == returned[strip_qs(t.raw)]
        IN  /\ t.pc = "done" /\ t.cached /\ ~DEBUG
            /\ t.raw = <<"apple", "p1", "?", "x=1">>
            /\ prev # <<>> /\ prev[1].raw = <<"apple", "p1">>
            /\ t.result[1].playlist_url = prev[1].playlist_url
            /\ t.result[1].playlist_url # None

\* the first attempt met a 5xx on its first append call, the second met no error
RetriedOnce(t) ==
    /\ Converted(t) /\ t.retries = 1
    /\ t.first_failure # <<>>
    /\ t.first_failure[1].op = "append" /\ t.first_failure[1].nth = 1
    /\ t.first_failure[1].status >= ServerError

\* C4: after a 5xx on the first append attempt and a retry without error,
\* the result has the track_count and the missed_tracks of a conversion
\* without failure, and the counter has gone up by exactly one.
C4_RetrySameResult ==
    \A w \in Workers :
        LET t == task[w] IN
        RetriedOnce(t) =>
            /\ t.result[1].number_of_tracks = Len(t.source.tracks)
            /\ t.result[1].missed_tracks =
                  SelectSeq(t.source.tracks, LAMBDA x : IsMiss(t.fn, x))
            /\ counter = t.counter0 + 1
            /\ t.incremented = 1

\* such a retried conversion, with tracks missed
C4_Witness ==
    \E w \in Workers :
        /\ RetriedOnce(task[w])
        /\ task[w].result[1].missed_tracks # <<>>

\* C5 as stated: a 5xx answer to a playlist call ends the attempt by a
\* Retry, never by a failure of the task, in both directions.
C5_Claim ==
    \A w \in Workers :
        LET t == task[w] IN
        (t.pc = "done" /\ t.calls # <<>> /\ t.calls[Len(t.calls)].answer >= ServerError) =>
            t.outcome # "failure"

\* the step of worker w issues an upsert of its tracks_to_save
UpsertStep(w) ==
    /\ task[w].pc \in {"sp_save", "am_save", "am_except_save"}
    /\ task'[w].pc # task[w].pc
    /\ Len(task[w].tracks_to_save) > 0

\* C7 as stated: the upsert is keyed by the source-service id: a mapping
\* whose source id is in the table updates that row's destination id and
\* leaves the number of rows unchanged.
C7_Claim ==
    [][\A w \in Workers :
        UpsertStep(w) =>
            \A k \in 1..Len(task[w].tracks_to_save) :
                LET fn == task[w].fn
                    obj == task[w].tracks_to_save[k]
                IN  (\E r \in store : SourceId(fn, r) = SourceId(fn, obj)) =>
                        /\ Len(task[w].tracks_to_save) = 1 =>
                              Cardinality(store') = Cardinality(store)
                        /\ \E r \in store' :
                              /\ SourceId(fn, r) = SourceId(fn, obj)
                              /\ DestinationId(fn, r) = DestinationId(fn, obj)]_vars

\* C7 amended: the upsert is keyed by the destination-service id: the rows
\* holding a destination id of the batch are replaced by the batch's (last)
\* mapping for that id, the other rows stay, a row is added only for a
\* destination id the table lacks, and a write that would break uniqueness
\* changes nothing; a single mapping whose destination id is present and
\* whose source id no other row holds updates that row.
C7_UpsertByDestination ==
    [][\A w \in Workers :
        UpsertStep(w) =>
            LET fn == task[w].fn
                batch == task[w].tracks_to_save
                ids == {DestinationId(fn, batch[k]) : k \in 1..Len(batch)}
                last(d) == batch[CHOOSE k \in 1..Len(batch) :
                                /\ DestinationId(fn, batch[k]) = d
                                /\ \A j \in (k + 1)..Len(batch) : DestinationId(fn, batch[j]) # d]
                present == {d \in ids : \E r \in store : DestinationId(fn, r) = d}
                target == {r \in store : DestinationId(fn, r) \notin ids} \cup {last(d) : d \in ids}
            IN  /\ store' \in {store, target}
                /\ Unique(store')
                /\ store' # store =>
                      Cardinality(store') = Cardinality(store) + Cardinality(ids \ present)
                /\ (/\ Len(batch) = 1 /\ present # {}
                    /\ \A r \in store : SourceId(fn, r) = SourceId(fn, batch[1])
                                            => DestinationId(fn, r) = DestinationId(fn, batch[1]))
                      => (store' = target /\ Cardinality(store') = Cardinality(store))]_vars

\* an upsert has replaced a row and added none
C7_Witness ==
    \E w \in Workers :
        \E k \in 1..Len(task[w].saved) :
            /\ ~task[w].saved[k].rejected
            /\ task[w].saved[k].replaced > 0
            /\ task[w].saved[k].grew = 0

\* C10: a rejected mapping write never fails the conversion: a task fails
\* only on the error of a playlist call, and the result of a conversion is
\* the same whether the Track table took the upsert or rejected it.
C10_MappingWriteBestEffort ==
    \A w \in Workers :
        LET t == task[w] IN
        /\ t.outcome = "failure" =>
              (t.calls # <<>> /\ t.calls[Len(t.calls)].answer # OK)
        /\ Converted(t) =>
              t.result[1] =
                 [playlist_url |-> IF t.fn = SP THEN t.playlist_url ELSE None,
                  number_of_tracks |-> Len(t.source.tracks),
                  missed_tracks |-> SelectSeq(t.source.tracks, LAMBDA x : IsMiss(t.fn, x)),
                  source |-> IF t.fn = SP THEN "apple-music" ELSE "spotify",
                  destination |-> IF t.fn = SP THEN "spotify" ELSE "apple-music"]

\* a conversion has returned its result although the Track table rejected
\* its upsert
C10_Witness ==
    \E w \in Workers :
        /\ Converted(task[w])
        /\ \E k \in 1..Len(task[w].saved) : task[w].saved[k].rejected

\* C11 as stated: a conversion that returns a freshly computed result has
\* added exactly one row to the Playlist table, in either direction, and one
\* that fails, signals a retry or is answered from the cache has added none.
C11_Claim ==
    \A w \in Workers :
        LET t == task[w] IN
        /\ Converted(t) => t.logged = 1
        /\ (t.outcome \in {"failure", "retry"} \/ t.cached) => t.logged = 0

\* the source tracks of the frame that the search can match
Matchable(t) == SelectSeq(t.source.tracks, LAMBDA x : ~IsMiss(t.fn, x))

\* C12: when an attempt is about to raise Retry, or has raised it, after a
\* 5xx answer to a playlist call, and some track was matched, one upsert
\* holding all the matched tracks has been issued to the Track table.
C12_MappingsSavedBeforeRetry ==
    \A w \in Workers :
        LET t == task[w] IN
        ((t.pc = "am_retry" \/ t.outcome = "retry") /\ Len(Matchable(t)) > 0) =>
            /\ t.calls[Len(t.calls)].answer >= ServerError
            /\ Len(t.saved) = 1
            /\ t.saved[1].size = Len(Matchable(t))
            /\ t.saved[1].rejected \/ store # {}

\* an attempt with two matched tracks has raised Retry
C12_Witness ==
    \E w \in Workers :
        /\ task[w].outcome = "retry" /\ task[w].pc = "retry_wait"
        /\ Len(task[w].tracks_to_save) = 2
        /\ Len(task[w].saved) = 1

\* C13: a conversion answered from a cache entry that has not expired
\* returns the cached URL with source and destination and nothing else, and
\* has searched nothing, called no playlist operation, reported no progress,
\* written no mapping, no Playlist row and no cache entry, and left the
\* counter alone.
C13_CacheAnswerFrame ==
    \A w \in Workers :
        LET t == task[w] IN
        (t.pc = "done" /\ t.cached /\ now < t.until) =>
            /\ ~DEBUG /\ t.fn = SP
            /\ t.result[1] = [playlist_url |-> cache[strip_qs(t.raw)][1].value,
                              destination |-> "spotify", source |-> "apple-music"]
            /\ t.result[1].playlist_url # None
            /\ t.queries = <<>> /\ t.calls = <<>> /\ t.progress = <<>>
            /\ t.saved = <<>> /\ t.logged = 0
            /\ t.wrote_cache = 0 /\ t.incremented = 0
            /\ cache = t.cache0 /\ counter = t.counter0

\* the second conversion of a playlist has been answered from the cache; one
\* playlist was created, logged and counted
C13_Witness ==
    \E w \in Workers :
        /\ task[w].pc = "done" /\ task[w].cached /\ now < task[w].until
        /\ runs = 2 /\ counter = 1 /\ Len(playlists) = 1 /\ Len(created) = 1
        /\ task[w].result[1].playlist_url = FirstUrl

\* what C14 says of a state: an execution writes the cache at most once,
\* after a creation call and all its append calls were answered without
\* error, under the canonical URL and with the URL of the playlist it
\* created; an execution that failed, raised Retry or was answered from the
\* cache has written nothing; every entry holds the URL of a playlist created
\* for its key.
C14_Entries ==
    /\ \A w \in Workers :
        LET t == task[w]
            key == strip_qs(t.raw)
        IN  /\ t.wrote_cache <= 1
            /\ t.wrote_cache = 1 =>
                  /\ t.outcome \in {"", "result"} /\ ~t.cached
                  /\ t.calls[1].op = "create"
                  /\ \A k \in 1..Len(t.calls) : t.calls[k].answer = OK
                  /\ Len(CallsOf(t, "append")) = Max(1, Ceil(Len(t.track_ids), N))
                  /\ t.playlist_url # None
                  /\ cache[key] # <<>> /\ cache[key][1].value = t.playlist_url
                  /\ \A u \in DOMAIN cache \ {key} : cache[u] = t.cache0[u]
            /\ (t.outcome \in {"failure", "retry"} \/ t.cached) =>
                  (t.wrote_cache = 0 /\ cache = t.cache0)
    /\ \A u \in DOMAIN cache :
          cache[u] # <<>> =>
              /\ u = strip_qs(u)
              /\ \E k \in 1..Len(created) :
                    created[k] = u /\ cache[u][1].value = <<"open.spotify", k>>

\* C14: the cache is written at most once per execution, after the playlist
\* was created and its items submitted, under the canonical URL, with that
\* playlist's URL and a timeout of one hour; failed and cache-answered
\* executions write nothing; every cached URL is that of a playlist created
\* for the entry's key.
C14_CacheWrite ==
    /\ []C14_Entries
    /\ [][\A w \in Workers :
            task'[w].wrote_cache > task[w].wrote_cache =>
                cache' = [cache EXCEPT ![strip_qs(task[w].raw)] =
                            <<[value |-> task[w].playlist_url,
                               expires |-> now + CacheTimeout]>>]]_vars

\* the conversion of a URL with a query string has written the entry of the
\* bare URL, an hour after the deployment started
C14_Witness ==
    \E w \in Workers :
        /\ task[w].wrote_cache = 1 /\ task[w].pc = "done"
        /\ task[w].raw = <<"apple", "p1", "?", "x=1">>
        /\ cache[<<"apple", "p1">>] # <<>>
        /\ cache[<<"apple", "p1">>][1].value = task[w].playlist_url
        /\ cache[<<"apple", "p1">>][1].expires = 2 * CacheTimeout

\* the artists C15 gives the query of a track: at most the first two towards
\* Spotify, the first one towards Apple Music
QueryArtists(fn, track) ==
    SubSeq(track.artists, 1, IF fn = SP THEN Min(2, Len(track.artists)) ELSE 1)

\* C15 as stated: every track visited has been searched exactly once, with
\* limit 1, by its name followed by its bounded artist subset.
C15_Claim ==
    \A w \in Workers :
        LET t == task[w] IN
        PastParse(t) =>
            /\ Len(t.queries) = t.i
            /\ \A k \in 1..Len(t.queries) :
                  /\ t.queries[k].limit = 1
                  /\ t.queries[k].query =
                        <<t.tracks[k].name, " ">> \o Join(QueryArtists(t.fn, t.tracks[k]), " ")

RECURSIVE Submitted(_)
\* the items of a sequence of playlist calls, in call order
Submitted(cs) == IF cs = <<>> THEN <<>> ELSE Head(cs).items \o Submitted(Tail(cs))

\* the destination id the catalog gives a source track, as the task submits it
DestinationItem(fn, track) ==
    IF fn = SP THEN <<"spotify:track:", SpotifyIdOf(track.id)>> ELSE AppleIdOf(track.id)

\* C16: in a conversion without submission errors the items of the creation
\* call followed by those of the append calls, in call order, are the
\* destination ids of the matched source tracks, each once and in
\* source-track order, with nothing else among them; missed_tracks of the
\* result is the missed source tracks in source-track order.
C16_SubmittedInOrder ==
    \A w \in Workers :
        LET t == task[w]
            matched == Matchable(t)
        IN  Converted(t) =>
                /\ Submitted(t.calls) =
                      [k \in 1..Len(matched) |-> DestinationItem(t.fn, matched[k])]
                /\ t.result[1].missed_tracks =
                      SelectSeq(t.source.tracks, LAMBDA x : IsMiss(t.fn, x))

\* a conversion to Apple Music of more than N matched tracks, some missed,
\* has gone through: a creation call with N items and an append call
C16_Witness ==
    \E w \in Workers :
        /\ Converted(task[w]) /\ task[w].fn = AM
        /\ Len(task[w].calls) = 2 /\ task[w].calls[2].op = "append"
        /\ Len(task[w].calls[1].items) = N
        /\ task[w].result[1].missed_tracks # <<>>

\* what C17 says of a state: an execution increments the counter at most
\* once; one that has returned a freshly computed result has incremented it
\* once, and the counter stands one above its value when the conversion
\* started; one that failed, raised Retry or was answered from the cache has
\* not incremented it; after its increment an execution only goes on to its
\* result.
C17_Counted ==
    \A w \in Workers :
        LET t == task[w] IN
        /\ t.incremented <= 1
        /\ Converted(t) => (t.incremented = 1 /\ counter = t.counter0 + 1)
        /\ (t.outcome \in {"failure", "retry"} \/ t.cached) =>
              (t.incremented = 0 /\ counter = t.counter0)
        /\ t.incremented = 1 =>
              /\ t.pc \in {"am_save", "return", "done"}
              /\ t.outcome \in {"", "result"}
              /\ t.pc = "done" => t.result # <<>>

C20_Candidates ==
    \A w \in Workers :
        LET t == task[w]
            matched == SelectSeq(Take(t.tracks, t.i), LAMBDA x : ~IsMiss(t.fn, x))
        IN  (PastParse(t) /\ t.pc \in {"search", "create"}) =>
                /\ Len(t.tracks_to_save) = Len(t.track_ids)
                /\ Len(t.tracks_to_save) = Len(matched)
                /\ \A k \in 1..Len(t.tracks_to_save) :
                      LET row == t.tracks_to_save[k] IN
                      /\ SourceId(t.fn, row) = matched[k].id
                      /\ row.name = matched[k].name
                      /\ t.track_ids[k] = IF t.fn = SP
                                          THEN <<"spotify:track:", DestinationId(t.fn, row)>>
                                          ELSE DestinationId(t.fn, row)
                /\ \A j \in 1..Len(t.missed_tracks) :
                      \A k \in 1..Len(t.tracks_to_save) :
                          SourceId(t.fn, t.tracks_to_save[k]) # t.missed_tracks[j].id

\* the loop of generate_spotify_playlist has ended on two matched tracks,
\* the first pairing Apple Music id 2 with Spotify id 1
C20_Witness ==
    \E w \in Workers :
        /\ task[w].pc = "create" /\ task[w].fn = SP
        /\ Len(task[w].tracks_to_save) = 2
        /\ task[w].tracks_to_save[1].apple_music_id = 2
        /\ task[w].tracks_to_save[1].spotify_id = 1
        /\ task[w].track_ids[1] = <<"spotify:track:", 1>>

\* C18: a conversion that has started comes to its end, a result or a
\* failure of the task, whatever the services answer.
C18_Terminates ==
    \A w \in Workers :
        (task[w].pc \notin {"idle", "off", "done"}) ~> (task[w].pc = "done")

\* a conversion whose every attempt met a 5xx answer has ended in failure
\* after the last retry Celery allows
C18_Witness ==
    \E w \in Workers :
        /\ task[w].pc = "done" /\ task[w].outcome = "failure"
        /\ task[w].retries = MaxRetries
        /\ task[w].err >= ServerError

\* what a conversion of the frame's playlist comes to when it runs alone:
\* the lists at the end of its search loop, the items it submits, its result
AloneAsExpected(t) ==
    /\ (PastParse(t) /\ t.pc # "search") =>
          /\ t.missed_tracks = SelectSeq(t.source.tracks, LAMBDA x : IsMiss(t.fn, x))
          /\ Len(t.tracks_to_save) = Len(Matchable(t))
          /\ \A k \in 1..Len(t.tracks_to_save) :
                SourceId(t.fn, t.tracks_to_save[k]) = Matchable(t)[k].id
    /\ Converted(t) =>
          /\ Submitted(t.calls) =
                [k \in 1..Len(Matchable(t)) |-> DestinationItem(t.fn, Matchable(t)[k])]
          /\ t.result[1] =
                [playlist_url |-> IF t.fn = SP THEN t.playlist_url ELSE None,
                 number_of_tracks |-> Len(t.source.tracks),
                 missed_tracks |-> SelectSeq(t.source.tracks, LAMBDA x : IsMiss(t.fn, x)),
                 source |-> IF t.fn = SP THEN "apple-music" ELSE "spotify",
                 destination |-> IF t.fn = SP THEN "spotify" ELSE "apple-music"]

\* C19: when two workers have each brought a conversion to its end, of
\* playlists with different canonical URLs and with their steps interleaved
\* in any order, each conversion's lists, submitted items and result are
\* those of a conversion running alone, the cache entry of each converted
\* Apple Music URL holds the URL of the playlist that conversion created, and
\* the counter stands above its value before the two by the number of them
\* that returned a freshly computed result.
C19_Independent ==
    \A w1, w2 \in Workers :
        LET t1 == task[w1]
            t2 == task[w2]
            fresh == {w \in {w1, w2} : Converted(task[w])}
        IN  /\ AloneAsExpected(t1)
            /\ (/\ w1 # w2 /\ t1.pc = "done" /\ t2.pc = "done"
                /\ strip_qs(t1.raw) # strip_qs(t2.raw)) =>
                  /\ counter = Min(t1.counter0, t2.counter0) + Cardinality(fresh)
                  /\ (Converted(t1) /\ t1.fn = SP) =>
                        /\ cache[strip_qs(t1.raw)] # <<>>
                        /\ cache[strip_qs(t1.raw)][1].value = t1.playlist_url
                        /\ created[t1.playlist_url[2]] = strip_qs(t1.raw)
                        /\ t1.playlist_url # t2.playlist_url

\* two conversions to Spotify, of two Apple Music playlists, that both
\* started before either had counted its playlist, have both returned; the
\* one that created its playlist first was the second to write the cache
C19_Witness ==
    \E w1, w2 \in Workers :
        /\ w1 # w2
        /\ Converted(task[w1]) /\ Converted(task[w2])
        /\ task[w1].fn = SP /\ task[w2].fn = SP
        /\ task[w1].raw = <<"apple", "p1">> /\ task[w2].raw = <<"apple", "p2">>
        /\ task[w1].counter0 = task[w2].counter0
        /\ counter = task[w1].counter0 + 2
        /\ task[w1].playlist_url = <<"open.spotify", 2>>
        /\ task[w1].until > task[w2].until

====
